---- MODULE Spec2Model ----
(***************************************************************************)
(* WASAC complaint pipeline: Data_P.py (clean_and_process_data) writes the *)
(* processed CSV, Dashboard.py loads it, filters it and computes the KPIs  *)
(* and the ranked bar charts.                                              *)
(*                                                                         *)
(* Text is a sequence of one-character strings, so that str.strip() and    *)
(* the lexicographic order of group keys are computed, not assumed.        *)
(* A timestamp is a number of ticks (TicksPerSecond per second) since      *)
(* 2023-01-01 00:00:00; a float is kept as an exact fraction num/den.      *)
(***************************************************************************)
EXTENDS Integers, Sequences, FiniteSets, TLC

VARIABLES rawFile, procFile, norm, dash

vars == <<rawFile, procFile, norm, dash>>

(* ------------------------------ bounds -------------------------------- *)

\* Rows of the raw export in the normalizer runs (Spec).
MaxRows == 2
\* Rows of the raw export in the dashboard runs (SpecDash).
MaxDashRows == 3
\* Rows of the raw export in the ranked-chart runs (SpecChart).
MaxChartRows == 7
\* Sub-second resolution of a timestamp.
TicksPerSecond == 2
\* Latest calendar day (counted from 2023-01-01) the wall clock may show.
MaxToday == 3

(* ------------------------- program constants -------------------------- *)

SecondsPerHour == 3600
SecondsPerMinute == 60
SecondsPerDay == 86400
TopN == 5

TicksPerDay == SecondsPerDay * TicksPerSecond

(* -------------------------------- text -------------------------------- *)

\* The characters used, in code-point order (Python compares str by code point).
Alphabet == <<" ", "/", "1", "2", "A", "B", "C", "D", "E", "F", "G", "K", "L",
              "N", "O", "P", "R", "S", "U",
              "a", "b", "c", "d", "e", "g", "i", "k", "l", "m", "n", "o", "p", "r",
              "s", "u", "w">>

ord(ch) == CHOOSE i \in 1..Len(Alphabet) : Alphabet[i] = ch

RECURSIVE StrLess(_, _)
\* Python's str.__lt__ : lexicographic by code point, a proper prefix is smaller.
StrLess(s, t) ==
    IF t = <<>> THEN FALSE
    ELSE IF s = <<>> THEN TRUE
    ELSE IF Head(s) # Head(t) THEN ord(Head(s)) < ord(Head(t))
    ELSE StrLess(Tail(s), Tail(t))

RECURSIVE lstrip(_)
lstrip(s) == IF s # <<>> /\ Head(s) = " " THEN lstrip(Tail(s)) ELSE s

RECURSIVE rstrip(_)
rstrip(s) ==
    IF s # <<>> /\ s[Len(s)] = " " THEN rstrip(SubSeq(s, 1, Len(s) - 1)) ELSE s

\* str.strip()
strip(s) == rstrip(lstrip(s))

s_nan == <<"n", "a", "n">>
s_NA == <<"N", "A">>
Unknown == <<"U", "n", "k", "n", "o", "w", "n">>
Closed == <<"C", "l", "o", "s", "e", "d">>
Open == <<"O", "p", "e", "n">>
Pending == <<"P", "e", "n", "d", "i", "n", "g">>

\* pandas' default NA strings (those the Alphabet can spell): a field of a CSV
\* file holding one of them is read as NaN.
NaValues == {<<>>, s_nan, s_NA, <<"N", "a", "N">>, <<"N", "U", "L", "L">>,
             <<"n", "u", "l", "l">>, <<"N", "o", "n", "e">>,
             <<"N", "/", "A">>, <<"n", "/", "a">>}

\* A cell of an object column: NaN or a str.
NaN == [na |-> TRUE, s |-> <<>>]
Str(s) == [na |-> FALSE, s |-> s]

\* pd.read_csv on one text field of an object column.
read_csv_field(text) == IF text \in NaValues THEN NaN ELSE Str(text)

(* ----------------------------- timestamps ----------------------------- *)

NaT == [nat |-> TRUE, t |-> 0]
Timestamp(t) == [nat |-> FALSE, t |-> t]

\* Text of a raw time field: a date the mixed parser reads as tick t, text it
\* cannot read, or an empty field.
DateText(t) == [kind |-> "date", t |-> t]
BadText == [kind |-> "bad", t |-> 0]
EmptyText == [kind |-> "empty", t |-> 0]

\* pd.to_datetime(col, format='mixed', errors='coerce') on one raw field:
\* NaN (an empty field) and unparseable text both become NaT.
to_datetime(field) == IF field.kind = "date" THEN Timestamp(field.t) ELSE NaT

\* Faulty variant of the negative-duration rule: the sign is not looked at.
Resolution_Time_signed(received, resolved) ==
    IF received.nat \/ resolved.nat
    THEN [nat |-> TRUE, ticks |-> 0]
    ELSE [nat |-> FALSE, ticks |-> resolved.t - received.t]

\* Resolved - Received as a Timedelta; NaT when either is NaT, and set to NaT
\* when negative.
Resolution_Time(received, resolved) ==
    IF received.nat \/ resolved.nat
    THEN [nat |-> TRUE, ticks |-> 0]
    ELSE IF resolved.t - received.t < 0
         THEN [nat |-> TRUE, ticks |-> 0]
         ELSE [nat |-> FALSE, ticks |-> resolved.t - received.t]

\* Timedelta .dt.total_seconds() / 3600 as the exact fraction num/den; NaN for NaT.
Resolution_Time_Hours(td) ==
    IF td.nat
    THEN [nan |-> TRUE, num |-> 0, den |-> 1]
    ELSE [nan |-> FALSE, num |-> td.ticks, den |-> TicksPerSecond * SecondsPerHour]

\* .dt.strftime('%Y-%m-%d %H:%M:%S').fillna('') : the text shows whole seconds.
strftime(ts) ==
    IF ts.nat
    THEN [empty |-> TRUE, sec |-> 0]
    ELSE [empty |-> FALSE, sec |-> ts.t \div TicksPerSecond]

(* ----------------------------- normalizer ----------------------------- *)

\* df.rename(columns={...}) : a column not in the table keeps its name.
rename(col) ==
    CASE col = "Complaint-ID" -> "Complaint_ID"
      [] col = "Type_of_Complaint" -> "Type_of_Complaint_Received"
      [] col = "Time_Received" -> "Time_Complaint_Received"
      [] col = "Time_Resolved" -> "Time_Complaint_Resolved"
      [] col = "Assigned_To" -> "Assigned_Staff"
      [] col = "District" -> "Location_District"
      [] col = "Branch" -> "Branch_Name"
      [] col = "Sector" -> "Location_Sector"
      [] col = "Province" -> "Location_Province"
      [] OTHER -> col

\* The columns df[[...]] selects.
required_cols == {"Complaint_ID", "Type_of_Complaint_Received",
                  "Time_Complaint_Received", "Time_Complaint_Resolved",
                  "Assigned_Staff", "Complaint_Status", "Location_District",
                  "Branch_Name"}

date_cols == {"Time_Complaint_Received", "Time_Complaint_Resolved"}

string_cols == {"Type_of_Complaint_Received", "Location_District",
                "Assigned_Staff", "Complaint_Status", "Branch_Name"}

\* A raw row under its renamed column names.
renamed(row) ==
    [c \in {rename(k) : k \in DOMAIN row} |->
        row[CHOOSE k \in DOMAIN row : rename(k) = c]]

\* read_csv, then .astype(str).str.strip().replace('nan', 'Unknown') on one field.
clean_string(text) ==
    LET v == read_csv_field(text)
        s == strip(IF v.na THEN s_nan ELSE v.s)
    IN  IF s = s_nan THEN Unknown ELSE s

\* One row of the frame after steps 2 to 4: timestamps, the duration, clean strings.
canonical_row(row) ==
    LET r == renamed(row)
        received == to_datetime(r["Time_Complaint_Received"])
        resolved == to_datetime(r["Time_Complaint_Resolved"])
        td == Resolution_Time(received, resolved)
    IN  [Complaint_ID |-> r["Complaint_ID"],
         Type_of_Complaint_Received |-> clean_string(r["Type_of_Complaint_Received"]),
         Time_Complaint_Received |-> received,
         Time_Complaint_Resolved |-> resolved,
         Assigned_Staff |-> clean_string(r["Assigned_Staff"]),
         Complaint_Status |-> clean_string(r["Complaint_Status"]),
         Location_District |-> clean_string(r["Location_District"]),
         Branch_Name |-> clean_string(r["Branch_Name"]),
         Resolution_Time |-> td,
         Resolution_Time_Hours |-> Resolution_Time_Hours(td)]

\* Step 5 on one row: the date columns become text, then to_csv writes every
\* column as a text field (NaT and NaN as the empty field).
to_csv_row(rec) ==
    [rec EXCEPT !.Time_Complaint_Received = strftime(@),
                !.Time_Complaint_Resolved = strftime(@),
                !.Resolution_Time = [empty |-> @.nat, ticks |-> @.ticks],
                !.Resolution_Time_Hours = [empty |-> @.nan, num |-> @.num, den |-> @.den]]

\* One row of the processed file from one raw row.
process_row(row) == to_csv_row(canonical_row(row))

\* Faulty variant of the row handling: rows whose received time is NaT are dropped.
RECURSIVE process_rows_dropna(_)
process_rows_dropna(rows) ==
    IF rows = <<>> THEN <<>>
    ELSE IF to_datetime(renamed(Head(rows))["Time_Complaint_Received"]).nat
         THEN process_rows_dropna(Tail(rows))
         ELSE <<process_row(Head(rows))>> \o process_rows_dropna(Tail(rows))

\* Every raw row gives one processed row, in order.
process_rows(rows) == [i \in 1..Len(rows) |-> process_row(rows[i])]

NoFile == [exists |-> FALSE, rows |-> <<>>]
CsvFile(rows) == [exists |-> TRUE, rows |-> rows]

(* ------------------------------- loader ------------------------------- *)

\* pd.read_csv on one row of the processed file, then pd.to_datetime on
\* Time_Complaint_Received alone: Time_Complaint_Resolved and Resolution_Time
\* stay what read_csv made of them, text or NaN.
read_row(rec) ==
    [Complaint_ID |-> rec.Complaint_ID,
     Type_of_Complaint_Received |-> read_csv_field(rec.Type_of_Complaint_Received),
     Time_Complaint_Received |->
        IF rec.Time_Complaint_Received.empty
        THEN NaT
        ELSE Timestamp(rec.Time_Complaint_Received.sec * TicksPerSecond),
     Time_Complaint_Resolved |-> rec.Time_Complaint_Resolved,
     Assigned_Staff |-> read_csv_field(rec.Assigned_Staff),
     Complaint_Status |-> read_csv_field(rec.Complaint_Status),
     Location_District |-> read_csv_field(rec.Location_District),
     Branch_Name |-> read_csv_field(rec.Branch_Name),
     Resolution_Time |-> rec.Resolution_Time,
     Resolution_Time_Hours |->
        [nan |-> rec.Resolution_Time_Hours.empty,
         num |-> rec.Resolution_Time_Hours.num,
         den |-> rec.Resolution_Time_Hours.den]]

read_rows(rows) == [i \in 1..Len(rows) |-> read_row(rows[i])]

\* Series.min() / Series.max() skip NaT; NaT when nothing is left.
Present(col) == {col[i].t : i \in {j \in 1..Len(col) : ~col[j].nat}}
series_min(col) ==
    IF Present(col) = {} THEN NaT
    ELSE Timestamp(CHOOSE t \in Present(col) : \A u \in Present(col) : t <= u)
series_max(col) ==
    IF Present(col) = {} THEN NaT
    ELSE Timestamp(CHOOSE t \in Present(col) : \A u \in Present(col) : t >= u)

\* Timestamp.normalize().date() as a day number.
date_of(ts) == ts.t \div TicksPerDay

Zero == [num |-> 0, den |-> 1]

\* df[df['Complaint_Status'] == 'Closed']
closed_rows(rows) == SelectSeq(rows, LAMBDA r : r.Complaint_Status = Str(Closed))

RECURSIVE sum_num(_)
sum_num(hs) == IF hs = <<>> THEN 0 ELSE Head(hs).num + sum_num(Tail(hs))

\* Faulty variant of the mean: the mean of nothing is 0.
mean_hours_empty_zero(rows) ==
    LET hs == SelectSeq([i \in 1..Len(rows) |-> rows[i].Resolution_Time_Hours],
                        LAMBDA h : ~h.nan)
    IN  [nan |-> FALSE, num |-> sum_num(hs),
         den |-> (IF hs = <<>> THEN 1 ELSE Len(hs)) * TicksPerSecond * SecondsPerHour]

\* Faulty variant of the mean: NaN counts as a zero duration.
mean_hours_nan_as_zero(rows) ==
    IF rows = <<>> THEN [nan |-> TRUE, num |-> 0, den |-> 1]
    ELSE [nan |-> FALSE,
          num |-> sum_num([i \in 1..Len(rows) |-> rows[i].Resolution_Time_Hours]),
          den |-> Len(rows) * TicksPerSecond * SecondsPerHour]

\* Series.mean() of Resolution_Time_Hours: NaN is skipped, and the mean of
\* nothing is NaN. The values share the denominator ticks-per-hour.
mean_hours(rows) ==
    LET hs == SelectSeq([i \in 1..Len(rows) |-> rows[i].Resolution_Time_Hours],
                        LAMBDA h : ~h.nan)
    IN  IF hs = <<>> THEN [nan |-> TRUE, num |-> 0, den |-> 1]
        ELSE [nan |-> FALSE, num |-> sum_num(hs),
              den |-> Len(hs) * TicksPerSecond * SecondsPerHour]

(* ------------------------------ dashboard ----------------------------- *)

\* The global average daily rate of load_processed_data.
global_avg_daily(df) ==
    LET col == [i \in 1..Len(df) |-> df[i].Time_Complaint_Received]
        start_date == series_min(col)
        end_date == series_max(col)
        total_days == date_of(end_date) - date_of(start_date) + 1
    IN  IF df = <<>> THEN Zero
        ELSE IF start_date.nat THEN Zero
        ELSE IF total_days > 0 THEN [num |-> Len(df), den |-> total_days]
        ELSE Zero

\* sorted(df[col].unique()) raises TypeError when it has to compare the float
\* NaN with a str, that is when the column holds NaN and at least one str.
unique(df, col) == {df[i][col] : i \in 1..Len(df)}
sorted_raises(values) == NaN \in values /\ values # {NaN}

\* Faulty variant of the filter: the upper end of the date range is exclusive.
apply_filters_end_exclusive(df, districts, branches, types, start_date, end_date) ==
    SelectSeq(df, LAMBDA r :
        /\ r.Location_District \in districts
        /\ r.Branch_Name \in branches
        /\ r.Type_of_Complaint_Received \in types
        /\ ~r.Time_Complaint_Received.nat
        /\ date_of(r.Time_Complaint_Received) >= start_date
        /\ date_of(r.Time_Complaint_Received) < end_date)

\* Faulty variant of the filter: NaT passes the date comparison.
apply_filters_keep_nat(df, districts, branches, types, start_date, end_date) ==
    SelectSeq(df, LAMBDA r :
        /\ r.Location_District \in districts
        /\ r.Branch_Name \in branches
        /\ r.Type_of_Complaint_Received \in types
        /\ \/ r.Time_Complaint_Received.nat
           \/ /\ date_of(r.Time_Complaint_Received) >= start_date
              /\ date_of(r.Time_Complaint_Received) <= end_date)

\* df_filtered: the boolean mask of the four isin / date comparisons, in the
\* frame's order. A comparison with NaT (.dt.date of NaT) is False.
apply_filters(df, districts, branches, types, start_date, end_date) ==
    SelectSeq(df, LAMBDA r :
        /\ r.Location_District \in districts
        /\ r.Branch_Name \in branches
        /\ r.Type_of_Complaint_Received \in types
        /\ ~r.Time_Complaint_Received.nat
        /\ date_of(r.Time_Complaint_Received) >= start_date
        /\ ~r.Time_Complaint_Received.nat
        /\ date_of(r.Time_Complaint_Received) <= end_date)

\* The filtered average daily rate.
filtered_avg_daily(df_filtered) ==
    LET col == [i \in 1..Len(df_filtered) |-> df_filtered[i].Time_Complaint_Received]
        filtered_start_date == series_min(col)
        filtered_end_date == series_max(col)
        filtered_total_days == date_of(filtered_end_date) - date_of(filtered_start_date) + 1
    IN  IF df_filtered = <<>> THEN Zero
        ELSE IF filtered_start_date.nat THEN Zero
        ELSE IF filtered_total_days > 0
             THEN [num |-> Len(df_filtered), den |-> filtered_total_days]
        ELSE Zero

\* (len(filtered_closed) / total) * 100 if total > 0 else 0
filtered_resolution_rate(n_closed, total) ==
    IF total > 0 THEN [num |-> 100 * n_closed, den |-> total] ELSE Zero

\* f"{rate:.1f}" in tenths of a percent (round half to even).
rate_tenths(rate) ==
    LET n == 10 * rate.num
        q == n \div rate.den
        r == n % rate.den
    IN  IF 2 * r > rate.den \/ (2 * r = rate.den /\ q % 2 = 1) THEN q + 1 ELSE q

\* format_timedelta(td): "N/A" for NaN, else the non-zero parts of
\* int(td * 3600) seconds as days, hours, minutes (minutes alone when all are
\* zero). td is never negative here. den is a multiple of SecondsPerHour.
format_timedelta(td) ==
    IF td.nan THEN <<"N/A">>
    ELSE LET total_seconds == td.num \div (td.den \div SecondsPerHour)
             days == total_seconds \div SecondsPerDay
             hours == (total_seconds % SecondsPerDay) \div SecondsPerHour
             minutes == ((total_seconds % SecondsPerDay) % SecondsPerHour) \div SecondsPerMinute
             d == IF days > 0 THEN <<<<days, "d">>>> ELSE <<>>
             h == IF hours > 0 THEN <<<<hours, "h">>>> ELSE <<>>
             m == IF minutes > 0 \/ d \o h = <<>> THEN <<<<minutes, "m">>>> ELSE <<>>
         IN  d \o h \o m

\* The KPIs recomputed on the filtered rows, and what the five metrics show.
filtered_kpis(df_filtered) ==
    LET total_filtered_complaints == Len(df_filtered)
        filtered_closed == closed_rows(df_filtered)
        rate == filtered_resolution_rate(Len(filtered_closed), total_filtered_complaints)
    IN  [total |-> total_filtered_complaints,
         closed |-> Len(filtered_closed),
         avg_resolution |-> mean_hours(filtered_closed),
         resolution_rate |-> rate,
         avg_daily |-> filtered_avg_daily(df_filtered),
         open |-> Len(SelectSeq(df_filtered,
                    LAMBDA r : r.Complaint_Status \in {Str(Pending), Str(Open)})),
         shown_avg_resolution |-> format_timedelta(mean_hours(filtered_closed)),
         shown_rate |-> rate_tenths(rate)]

RECURSIVE sort_keys(_)
\* The keys of a groupby, ascending.
sort_keys(keys) ==
    IF keys = {} THEN <<>>
    ELSE LET k == CHOOSE k \in keys : \A o \in keys \ {k} : StrLess(k, o)
         IN  <<k>> \o sort_keys(keys \ {k})

\* df.groupby(col).size().reset_index(name='Count'): one row per key that
\* occurs, NaN keys dropped, keys ascending.
groupby_size(rows, col) ==
    LET keys == sort_keys({rows[i][col].s : i \in {j \in 1..Len(rows) : ~rows[j][col].na}})
    IN  [k \in 1..Len(keys) |->
            [key |-> keys[k],
             Count |-> Cardinality({i \in 1..Len(rows) : rows[i][col] = Str(keys[k])})]]

RECURSIVE orders_desc(_)
\* sort_values('Count', ascending=False) with the default, unstable quicksort:
\* every arrangement with the counts descending is a possible result.
orders_desc(groups) ==
    IF groups = {} THEN {<<>>}
    ELSE UNION {{<<g>> \o rest : rest \in orders_desc(groups \ {g})} :
                  g \in {x \in groups : \A y \in groups : x.Count >= y.Count}}

\* Faulty variant of the ranking: ascending counts.
sort_values_ascending(counts) ==
    LET groups == {counts[i] : i \in 1..Len(counts)}
        rev(o) == [i \in 1..Len(o) |-> o[Len(o) + 1 - i]]
    IN  {rev(o) : o \in orders_desc(groups)}

sort_values_desc(counts) == orders_desc({counts[i] : i \in 1..Len(counts)})

\* .head(5)
head(seq) == SubSeq(seq, 1, IF Len(seq) < TopN THEN Len(seq) ELSE TopN)

NoKpi == [total |-> 0, closed |-> 0,
          avg_resolution |-> [nan |-> TRUE, num |-> 0, den |-> 1],
          resolution_rate |-> Zero, avg_daily |-> Zero, open |-> 0,
          shown_avg_resolution |-> <<"N/A">>, shown_rate |-> 0]

NoDash == [pc |-> "start", df |-> <<>>, global_avg_daily |-> Zero,
           global_avg_resolution |-> [nan |-> TRUE, num |-> 0, den |-> 1],
           selected_districts |-> {}, selected_branches |-> {},
           selected_types |-> {}, min_date |-> 0, max_date |-> 0,
           start_date |-> 0, end_date |-> 0,
           df_filtered |-> <<>>, kpi |-> NoKpi,
           branch_chart |-> <<>>, district_chart |-> <<>>, top5 |-> {}]

(* -------------------------------- inputs ------------------------------ *)

T(day, hour) == (day * SecondsPerDay + hour * SecondsPerHour) * TicksPerSecond

WasacHeader == {"Complaint-ID", "Type_of_Complaint", "Time_Received",
                "Time_Resolved", "Assigned_To", "Complaint_Status", "District",
                "Branch", "Sector", "Province"}

\* The header rows a raw export may have: the full one, and two that lack a
\* column the normalizer selects.
Headers == {WasacHeader, WasacHeader \ {"Complaint_Status"},
            WasacHeader \ {"Time_Resolved"}}

Gasabo == <<"G", "a", "s", "a", "b", "o">>
Kicukiro == <<"K", "i", "c", "u", "k", "i", "r", "o">>
Leak == <<"L", "e", "a", "k">>
Bill == <<"B", "i", "l", "l">>
Branch1 == <<"B", "1">>
Branch2 == <<"B", "2">>
Alice == <<"A", "l", "i", "c", "e">>
Blank == <<" ", " ">>
Padded(s) == <<" ">> \o s \o <<" ", " ">>

RawRow(type, received, resolved, staff, status, district, branch) ==
    ("Complaint-ID" :> 0) @@ ("Type_of_Complaint" :> type) @@
    ("Time_Received" :> received) @@ ("Time_Resolved" :> resolved) @@
    ("Assigned_To" :> staff) @@ ("Complaint_Status" :> status) @@
    ("District" :> district) @@ ("Branch" :> branch) @@
    ("Sector" :> Unknown) @@ ("Province" :> Unknown)

t8 == DateText(T(0, 8))
t10 == DateText(T(0, 10) + 1)

\* Raw rows of the normalizer runs: every shape of the two time fields on
\* clean strings, and every string column empty, blank and padded.
TimeShapes == {<<t8, t10>>, <<t10, t8>>, <<t8, t8>>, <<BadText, t8>>,
               <<t8, BadText>>, <<EmptyText, EmptyText>>, <<t8, EmptyText>>}
NormRows ==
    {RawRow(Leak, p[1], p[2], Alice, Closed, Gasabo, Branch1) : p \in TimeShapes}
    \cup {RawRow(x, t8, t10, Alice, Closed, Gasabo, Branch1) : x \in {<<>>, Blank, Padded(Bill)}}
    \cup {RawRow(Leak, t8, t10, x, Closed, Gasabo, Branch1) : x \in {<<>>, Blank}}
    \cup {RawRow(Leak, t8, t10, Alice, x, Gasabo, Branch1) : x \in {<<>>, Blank, Padded(Open)}}
    \cup {RawRow(Leak, t8, t10, Alice, Closed, x, Branch1) : x \in {<<>>, Blank, Padded(s_NA), Padded(s_nan)}}
    \cup {RawRow(Leak, t8, t10, Alice, Closed, Gasabo, x) : x \in {<<>>, Blank}}

\* A processed file left by an earlier run.
StaleFile == CsvFile(process_rows(<<RawRow(Bill, t8, t8, Alice, Open, Kicukiro, Branch2)>>))

(* ------------------------------- actions ------------------------------ *)

Init ==
    /\ rawFile \in {[exists |-> FALSE, cols |-> {}, rows |-> <<>>]}
                   \cup {[exists |-> TRUE, cols |-> h, rows |-> <<>>] : h \in Headers}
    /\ procFile \in {NoFile, StaleFile}
    /\ norm = "idle"
    /\ dash = NoDash

\* The export gains one data row (before the normalizer runs).
AppendRawRow(pool, max) ==
    /\ norm = "idle"
    /\ rawFile.exists
    /\ Len(rawFile.rows) < max
    /\ \E row \in pool :
         LET r == [row EXCEPT !["Complaint-ID"] = Len(rawFile.rows) + 1]
         IN  rawFile' = [rawFile EXCEPT
                           !.rows = Append(@, [c \in rawFile.cols |-> r[c]])]
    /\ UNCHANGED <<procFile, norm, dash>>

\* Faulty variant of the normalizer: the output file is opened (and so emptied)
\* before the input is read and its columns selected.
clean_and_process_data_truncating ==
    /\ norm = "idle"
    /\ IF ~rawFile.exists
       THEN norm' = "FileNotFoundError" /\ procFile' = CsvFile(<<>>)
       ELSE IF ~(required_cols \subseteq {rename(c) : c \in rawFile.cols})
            THEN norm' = "KeyError" /\ procFile' = CsvFile(<<>>)
            ELSE norm' = "done" /\ procFile' = CsvFile(process_rows(rawFile.rows))
    /\ UNCHANGED <<rawFile, dash>>

\* Data_P.py, clean_and_process_data(): FileNotFoundError is caught and the
\* function returns; a missing column makes df[[...]] raise KeyError, which
\* nothing catches; otherwise the processed file is written.
clean_and_process_data ==
    /\ norm = "idle"
    /\ IF ~rawFile.exists
       THEN norm' = "FileNotFoundError" /\ UNCHANGED procFile
       ELSE IF ~(required_cols \subseteq {rename(c) : c \in rawFile.cols})
            THEN norm' = "KeyError" /\ UNCHANGED procFile
            ELSE norm' = "done" /\ procFile' = CsvFile(process_rows(rawFile.rows))
    /\ UNCHANGED <<rawFile, dash>>

\* Dashboard.py, load_processed_data(): a missing file is reported and the
\* script stops; otherwise the frame and the two global KPIs are returned.
\* The dashboard is started after the normalizer has run ("Please run
\* 'dashboard_app.py' next"), whatever the outcome of that run.
load_processed_data ==
    /\ norm # "idle"
    /\ dash.pc = "start"
    /\ IF ~procFile.exists
       THEN dash' = [dash EXCEPT !.pc = "stopped"]
       ELSE LET df == read_rows(procFile.rows)
            IN  dash' = [dash EXCEPT
                           !.pc = "loaded",
                           !.df = df,
                           !.global_avg_daily = global_avg_daily(df),
                           !.global_avg_resolution = mean_hours(closed_rows(df))]
    /\ UNCHANGED <<rawFile, procFile, norm>>

Next ==
    \/ AppendRawRow(NormRows, MaxRows)
    \/ clean_and_process_data
    \/ load_processed_data

Spec == Init /\ [][Next]_vars

\* The user touches a widget: Streamlit runs the script again from the top,
\* in a fresh namespace; load_processed_data is served from st.cache_data.
Interaction ==
    /\ dash.pc = "rendered"
    /\ dash' = [NoDash EXCEPT !.pc = "loaded", !.df = dash.df,
                              !.global_avg_daily = dash.global_avg_daily,
                              !.global_avg_resolution = dash.global_avg_resolution]
    /\ UNCHANGED <<rawFile, procFile, norm>>

\* The script from `if df.empty` to its end, on the cached frame: one run per
\* interaction. The widgets' values are the user's; with default_only the
\* user leaves every widget at its default. A date input left with one date
\* selected fails to unpack (ValueError) and the full range is used.
DashboardRun(default_only) ==
    /\ dash.pc = "loaded"
    /\ LET df == dash.df
           district_options == unique(df, "Location_District")
           branch_options == unique(df, "Branch_Name")
           type_options == unique(df, "Type_of_Complaint_Received")
           col == [i \in 1..Len(df) |-> df[i].Time_Complaint_Received]
           min_date_val == series_min(col)
           max_date_val == series_max(col)
       IN  IF df = <<>>
           THEN dash' = [dash EXCEPT !.pc = "stopped"]
           ELSE IF \/ sorted_raises(district_options)
                   \/ sorted_raises(branch_options)
                   \/ sorted_raises(type_options)
           THEN dash' = [dash EXCEPT !.pc = "TypeError"]
           ELSE \E today \in (IF max_date_val.nat THEN 0..MaxToday ELSE {0}) :
                \E selected_districts \in
                     (IF default_only THEN {district_options} ELSE SUBSET district_options) :
                \E selected_branches \in
                     (IF default_only THEN {branch_options} ELSE SUBSET branch_options) :
                \E selected_types \in
                     (IF default_only THEN {type_options} ELSE SUBSET type_options) :
                LET min_date == IF min_date_val.nat THEN 0 ELSE date_of(min_date_val)
                    max_date == IF max_date_val.nat THEN today ELSE date_of(max_date_val)
                IN  \E picked \in
                        {<<min_date, max_date>>} \cup
                        (IF default_only THEN {}
                         ELSE {<<a, b>> : a \in min_date..max_date, b \in min_date..max_date}
                              \cup {<<a>> : a \in min_date..max_date}) :
                    LET start_date == IF Len(picked) = 2 THEN picked[1] ELSE min_date
                        end_date == IF Len(picked) = 2 THEN picked[2] ELSE max_date
                        df_filtered == apply_filters(df, selected_districts, selected_branches,
                                                     selected_types, start_date, end_date)
                        df_branch_rate == groupby_size(df_filtered, "Branch_Name")
                        df_district_rate == groupby_size(df_filtered, "Location_District")
                    IN  /\ Len(picked) = 2 => picked[1] <= picked[2]
                        /\ \E by_branch \in sort_values_desc(df_branch_rate) :
                           \E by_district \in sort_values_desc(df_district_rate) :
                             dash' = [dash EXCEPT
                                 !.pc = "rendered",
                                 !.selected_districts = selected_districts,
                                 !.selected_branches = selected_branches,
                                 !.selected_types = selected_types,
                                 !.min_date = min_date,
                                 !.max_date = max_date,
                                 !.start_date = start_date,
                                 !.end_date = end_date,
                                 !.df_filtered = df_filtered,
                                 !.kpi = filtered_kpis(df_filtered),
                                 !.branch_chart = by_branch,
                                 !.district_chart = by_district,
                                 !.top5 = {head(by_district)[i].key :
                                             i \in 1..Len(head(by_district))}]
    /\ UNCHANGED <<rawFile, procFile, norm>>

(* ------------------------------ dashboard runs ------------------------ *)

\* Raw rows of the dashboard runs: clean strings over two districts, two
\* branches, two types and three days, closed, open and pending, one row whose
\* received time does not parse, one resolved before received, one whose
\* district is blank.
DashRows ==
    {RawRow(Leak, DateText(T(0, 8)), DateText(T(0, 10)), Alice, Closed, Gasabo, Branch1),
     RawRow(Leak, DateText(T(0, 8)), DateText(T(0, 12)), Alice, Closed, Gasabo, Branch1),
     RawRow(Bill, DateText(T(1, 9)), EmptyText, Alice, Open, Kicukiro, Branch2),
     RawRow(Leak, DateText(T(2, 9)), EmptyText, Alice, Pending, Kicukiro, Branch1),
     RawRow(Bill, BadText, DateText(T(1, 9)), Alice, Closed, Gasabo, Branch2),
     RawRow(Leak, DateText(T(2, 10)), DateText(T(2, 9)), Alice, Closed, Kicukiro, Branch2),
     RawRow(Leak, DateText(T(1, 9)), DateText(T(1, 10)), Alice, Closed, Blank, Branch1)}

InitDash ==
    /\ rawFile = [exists |-> TRUE, cols |-> WasacHeader, rows |-> <<>>]
    /\ procFile = NoFile
    /\ norm = "idle"
    /\ dash = NoDash

NextDash ==
    \/ AppendRawRow(DashRows, MaxDashRows)
    \/ clean_and_process_data
    \/ load_processed_data
    \/ DashboardRun(FALSE)
    \/ Interaction

SpecDash == InitDash /\ [][NextDash]_vars

(* ---------------------------- ranked-chart runs ----------------------- *)

\* Six districts and more: the ranking of the district chart marks five.
Districts == <<Gasabo, Kicukiro, <<"B", "u", "g", "e", "s", "e", "r", "a">>,
               <<"K", "a", "r", "o", "n", "g", "i">>, <<"N", "g", "o", "m", "a">>,
               <<"R", "u", "l", "i", "n", "d", "o">>>>

ChartRow(k) ==
    RawRow(Leak, t8, t10, Alice, Closed, Districts[k], IF k % 2 = 0 THEN Branch1 ELSE Branch2)

DistrictIndex(row) == CHOOSE k \in 1..Len(Districts) : Districts[k] = row["District"]

\* The export gains one row; the rows come grouped by district (the counts a
\* chart ranks do not depend on the order of the rows).
AppendChartRow ==
    /\ norm = "idle"
    /\ Len(rawFile.rows) < MaxChartRows
    /\ \E k \in 1..Len(Districts) :
         /\ rawFile.rows # <<>> => DistrictIndex(rawFile.rows[Len(rawFile.rows)]) <= k
         /\ rawFile' = [rawFile EXCEPT
                          !.rows = Append(@, [ChartRow(k) EXCEPT
                                                !["Complaint-ID"] = Len(rawFile.rows) + 1])]
    /\ UNCHANGED <<procFile, norm, dash>>

NextChart ==
    \/ AppendChartRow
    \/ clean_and_process_data
    \/ load_processed_data
    \/ DashboardRun(TRUE)
    \/ Interaction

SpecChart == InitDash /\ [][NextChart]_vars

(* ------------------------- normalizer properties ---------------------- *)

RawReceived(i) == renamed(rawFile.rows[i])["Time_Complaint_Received"]
RawResolved(i) == renamed(rawFile.rows[i])["Time_Complaint_Resolved"]
BothParsed(i) == RawReceived(i).kind = "date" /\ RawResolved(i).kind = "date"

\* C1: for every raw row the written Resolution_Time_Hours is present iff both
\* time fields parsed and resolved >= received; when present it is the interval
\* in hours (ticks over ticks-per-hour) and is not negative.
C1_DurationPresentIffOrdered ==
    norm = "done" =>
      /\ Len(procFile.rows) = Len(rawFile.rows)
      /\ \A i \in 1..Len(rawFile.rows) :
           LET h == procFile.rows[i].Resolution_Time_Hours
           IN  /\ (~h.empty) <=> (BothParsed(i) /\ RawResolved(i).t >= RawReceived(i).t)
               /\ ~h.empty =>
                    /\ h.num = RawResolved(i).t - RawReceived(i).t
                    /\ h.den = TicksPerSecond * SecondsPerHour
                    /\ h.num >= 0

\* A run wrote a row resolved before it was received (duration absent) and a
\* row resolved after it was received (duration present).
C1_Witness ==
    /\ norm = "done"
    /\ \E i \in 1..Len(rawFile.rows) :
         /\ BothParsed(i) /\ RawResolved(i).t < RawReceived(i).t
         /\ procFile.rows[i].Resolution_Time_Hours.empty
    /\ \E i \in 1..Len(rawFile.rows) :
         /\ BothParsed(i) /\ RawResolved(i).t > RawReceived(i).t
         /\ ~procFile.rows[i].Resolution_Time_Hours.empty

\* C2: after normalization every designated string field of every record is
\* "Unknown" or a non-empty trimmed string, and a raw value that is missing or
\* empty after trimming has become "Unknown".
C2_StringsUnknownOrNonEmpty ==
    norm = "done" =>
      \A i \in 1..Len(procFile.rows) : \A c \in string_cols :
        LET v == procFile.rows[i][c]
            raw == renamed(rawFile.rows[i])[c]
        IN  /\ v = Unknown \/ (v # <<>> /\ strip(v) = v)
            /\ (read_csv_field(raw).na \/ strip(raw) = <<>>) => v = Unknown

\* C3: the processed file has one record per raw data row, in the raw order;
\* a row with an unparseable time, resolved before received or with a missing
\* string value is kept, the field concerned written as absent or "Unknown".
C3_RowCountPreserved ==
    norm = "done" =>
      /\ Len(procFile.rows) = Len(rawFile.rows)
      /\ \A i \in 1..Len(procFile.rows) :
           LET out == procFile.rows[i]
           IN  /\ out.Complaint_ID = rawFile.rows[i]["Complaint-ID"]
               /\ RawReceived(i).kind # "date" => out.Time_Complaint_Received.empty
               /\ RawResolved(i).kind # "date" => out.Time_Complaint_Resolved.empty
               /\ (BothParsed(i) /\ RawResolved(i).t < RawReceived(i).t)
                     => out.Resolution_Time_Hours.empty
               /\ \A c \in string_cols :
                     renamed(rawFile.rows[i])[c] = <<>> => out[c] = Unknown

\* A run kept a row with an unparseable time and a row resolved before received.
C3_Witness ==
    /\ norm = "done"
    /\ Len(procFile.rows) = 2
    /\ \E i \in 1..Len(rawFile.rows) :
         RawReceived(i).kind = "bad" /\ procFile.rows[i].Time_Complaint_Received.empty
    /\ \E i \in 1..Len(rawFile.rows) :
         BothParsed(i) /\ RawResolved(i).t < RawReceived(i).t

MissingColumn == rawFile.exists /\ ~(required_cols \subseteq {rename(c) : c \in rawFile.cols})

\* C4 as stated: a run on a missing source file, or on a source that lacks a
\* required column (failing with a SchemaError), leaves the processed file as
\* it was.
C4_FatalSchemaErrorNoOutput ==
    [][(norm = "idle" /\ norm' # "idle" /\ (~rawFile.exists \/ MissingColumn)) =>
          /\ procFile' = procFile
          /\ norm' # "done"
          /\ MissingColumn => norm' = "SchemaError"]_vars

\* C4 amended: the same, the missing column failing with pandas' KeyError.
C4_FatalNoOutput ==
    [][(norm = "idle" /\ norm' # "idle" /\ (~rawFile.exists \/ MissingColumn)) =>
          /\ procFile' = procFile
          /\ norm' # "done"
          /\ MissingColumn => norm' = "KeyError"
          /\ ~rawFile.exists => norm' = "FileNotFoundError"]_vars

\* A run failed on a missing column with rows in the source and an earlier
\* processed file in place.
C4_Witness ==
    /\ norm = "KeyError"
    /\ rawFile.rows # <<>>
    /\ procFile = StaleFile

\* C8: reading the written file back gives, row by row, the record that was
\* serialized: every field equal, absent fields absent, and both time fields
\* timestamps again.
C8_RoundTrip ==
    (norm = "done" /\ dash.pc = "loaded") =>
      /\ Len(dash.df) = Len(rawFile.rows)
      /\ \A i \in 1..Len(rawFile.rows) :
           LET rec == canonical_row(rawFile.rows[i])
               got == dash.df[i]
           IN  /\ got.Complaint_ID = rec.Complaint_ID
               /\ \A c \in string_cols : got[c] = Str(rec[c])
               /\ got.Time_Complaint_Received = rec.Time_Complaint_Received
               /\ got.Time_Complaint_Resolved = rec.Time_Complaint_Resolved
               /\ got.Resolution_Time_Hours = rec.Resolution_Time_Hours

(* -------------------------- dashboard properties ---------------------- *)

Rendered == dash.pc = "rendered"

\* The four conditions of the filter on one record, under the criteria of the run.
Passes(r) ==
    /\ r.Location_District \in dash.selected_districts
    /\ r.Branch_Name \in dash.selected_branches
    /\ r.Type_of_Complaint_Received \in dash.selected_types
    /\ ~r.Time_Complaint_Received.nat
    /\ dash.start_date <= r.Time_Complaint_Received.t \div TicksPerDay
    /\ r.Time_Complaint_Received.t \div TicksPerDay <= dash.end_date

InFiltered(r) == \E j \in 1..Len(dash.df_filtered) : dash.df_filtered[j] = r

\* C5: a record is in the filtered rows iff its district, branch and type are
\* selected and its received time is present with its date in
\* [start_date, end_date], both ends included; a record without a received
\* time is never in, an empty selection leaves nothing, and the rows kept are
\* in the order of the input.
C5_FilterIffAllCriteria ==
    Rendered =>
      /\ \A i \in 1..Len(dash.df) : InFiltered(dash.df[i]) <=> Passes(dash.df[i])
      /\ \A j \in 1..Len(dash.df_filtered) : ~dash.df_filtered[j].Time_Complaint_Received.nat
      /\ ({} \in {dash.selected_districts, dash.selected_branches, dash.selected_types})
            => dash.df_filtered = <<>>
      /\ \A j, k \in 1..Len(dash.df_filtered) :
           j < k => dash.df_filtered[j].Complaint_ID < dash.df_filtered[k].Complaint_ID

\* A run kept rows dated start_date and end_date of a two-day range and left
\* out a row whose district, branch and type were selected but whose received
\* time is absent.
C5_Witness ==
    /\ Rendered
    /\ dash.start_date < dash.end_date
    /\ \E j \in 1..Len(dash.df_filtered) :
         dash.df_filtered[j].Time_Complaint_Received.t \div TicksPerDay = dash.start_date
    /\ \E j \in 1..Len(dash.df_filtered) :
         dash.df_filtered[j].Time_Complaint_Received.t \div TicksPerDay = dash.end_date
    /\ \E i \in 1..Len(dash.df) :
         /\ dash.df[i].Time_Complaint_Received.nat
         /\ dash.df[i].Location_District \in dash.selected_districts
         /\ dash.df[i].Branch_Name \in dash.selected_branches
         /\ dash.df[i].Type_of_Complaint_Received \in dash.selected_types
         /\ ~InFiltered(dash.df[i])

\* Criteria that match everything: every value of the data selected, and the
\* date range from the earliest to the latest received date.
MatchAll ==
    /\ dash.selected_districts = {dash.df[i].Location_District : i \in 1..Len(dash.df)}
    /\ dash.selected_branches = {dash.df[i].Branch_Name : i \in 1..Len(dash.df)}
    /\ dash.selected_types = {dash.df[i].Type_of_Complaint_Received : i \in 1..Len(dash.df)}
    /\ dash.start_date = dash.min_date
    /\ dash.end_date = dash.max_date

\* The summary of the unfiltered rows equals the summary shown.
SameSummary ==
    /\ dash.kpi = filtered_kpis(dash.df)
    /\ dash.kpi.total = Len(dash.df)
    /\ dash.kpi.avg_daily = dash.global_avg_daily
    /\ dash.kpi.avg_resolution = dash.global_avg_resolution

AllReceivedPresent == \A i \in 1..Len(dash.df) : ~dash.df[i].Time_Complaint_Received.nat

\* C6 as stated: with criteria that match everything the summary of the
\* filtered rows is the summary of the unfiltered rows, also when records
\* lack a received time.
C6_MatchAllIsNoOp == (Rendered /\ MatchAll) => SameSummary

\* C6 amended: the same for a dataset all of whose records have a received time.
C6_MatchAllIsNoOpWhenReceivedPresent ==
    (Rendered /\ MatchAll /\ AllReceivedPresent) => SameSummary

\* A match-all run over records of two different days, all with a received time.
C6_Witness ==
    /\ Rendered /\ MatchAll /\ AllReceivedPresent
    /\ Len(dash.df) >= 2
    /\ dash.min_date < dash.max_date
    /\ dash.kpi.closed >= 1

\* C7: when no record passes the filter the run completes with total 0,
\* average daily rate 0, resolution rate 0, open count 0 and an absent average
\* resolution time (shown as N/A, not as zero).
C7_EmptyFilteredSet ==
    (Rendered /\ dash.df_filtered = <<>>) =>
      /\ dash.kpi.total = 0
      /\ dash.kpi.avg_daily.num = 0
      /\ dash.kpi.resolution_rate.num = 0 /\ dash.kpi.shown_rate = 0
      /\ dash.kpi.open = 0
      /\ dash.kpi.avg_resolution.nan
      /\ dash.kpi.shown_avg_resolution = <<"N/A">>

\* A run over a non-empty dataset with no district selected.
C7_Witness ==
    /\ Rendered
    /\ dash.df # <<>>
    /\ dash.selected_districts = {}
    /\ dash.selected_branches # {} /\ dash.selected_types # {}
    /\ dash.df_filtered = <<>>

RECURSIVE SumHours(_)
SumHours(idx) ==
    IF idx = {} THEN 0
    ELSE LET i == CHOOSE i \in idx : TRUE
         IN  dash.df_filtered[i].Resolution_Time_Hours.num + SumHours(idx \ {i})

ClosedIdx == {i \in 1..Len(dash.df_filtered) : dash.df_filtered[i].Complaint_Status.s = Closed}
ClosedWithHours == {i \in ClosedIdx : ~dash.df_filtered[i].Resolution_Time_Hours.nan}

\* C10: the average resolution time is the mean of the present
\* Resolution_Time_Hours of the records whose status is "Closed" (absent when
\* there is none), and the resolution rate is 100 x closed / total.
C10_ClosedMeanAndRate ==
    Rendered =>
      /\ dash.kpi.avg_resolution.nan <=> ClosedWithHours = {}
      /\ ~dash.kpi.avg_resolution.nan =>
           /\ dash.kpi.avg_resolution.num = SumHours(ClosedWithHours)
           /\ dash.kpi.avg_resolution.den =
                Cardinality(ClosedWithHours) * TicksPerSecond * SecondsPerHour
      /\ dash.kpi.total = Len(dash.df_filtered)
      /\ dash.kpi.total > 0 =>
           dash.kpi.resolution_rate.num * dash.kpi.total =
             100 * Cardinality(ClosedIdx) * dash.kpi.resolution_rate.den

\* Two closed records of 2.0 and 4.0 hours and one open record: average 3.0
\* hours, rate shown 66.7; and a run with a closed record without a duration.
C10_Witness ==
    /\ Rendered
    /\ Len(dash.df_filtered) = 3
    /\ Cardinality(ClosedIdx) = 2
    /\ {dash.df_filtered[i].Resolution_Time_Hours.num : i \in ClosedIdx}
         = {2 * SecondsPerHour * TicksPerSecond, 4 * SecondsPerHour * TicksPerSecond}
    /\ \E i \in 1..3 : dash.df_filtered[i].Complaint_Status.s = Open
    /\ dash.kpi.avg_resolution.num = 3 * dash.kpi.avg_resolution.den
    /\ dash.kpi.shown_avg_resolution = <<<<3, "h">>>>
    /\ dash.kpi.shown_rate = 667

\* The keys of a chart with their counts, as the filtered rows give them.
CountsRight(chart, col) ==
    /\ {chart[i].key : i \in 1..Len(chart)} =
         {dash.df_filtered[j][col].s :
            j \in {n \in 1..Len(dash.df_filtered) : ~dash.df_filtered[n][col].na}}
    /\ \A i \in 1..Len(chart) :
         chart[i].Count = Cardinality({j \in 1..Len(dash.df_filtered) :
                                         dash.df_filtered[j][col] = Str(chart[i].key)})
    /\ \A i, j \in 1..Len(chart) : i # j => chart[i].key # chart[j].key

Descending(chart) == \A i, j \in 1..Len(chart) : i < j => chart[i].Count >= chart[j].Count

DescendingThenKey(chart) ==
    \A i, j \in 1..Len(chart) :
      i < j => \/ chart[i].Count > chart[j].Count
               \/ chart[i].Count = chart[j].Count /\ StrLess(chart[i].key, chart[j].key)

FirstFive(chart) == {chart[i].key : i \in {n \in 1..Len(chart) : n <= TopN}}

\* C9 as stated: the branch and district breakdowns are ordered by count
\* descending and, among equal counts, by key ascending; the Top 5 are the
\* first five of that order.
C9_RankedByCountThenKey ==
    Rendered =>
      /\ DescendingThenKey(dash.branch_chart)
      /\ DescendingThenKey(dash.district_chart)
      /\ dash.top5 = FirstFive(dash.district_chart)

\* C9 amended: the breakdowns hold every group once with its count, ordered by
\* count descending, groups of equal count in whatever order the sort leaves
\* them; the Top 5 are the first five of that order, so no district outside
\* them has a larger count than one of them.
C9_RankedByCount ==
    Rendered =>
      /\ CountsRight(dash.branch_chart, "Branch_Name")
      /\ CountsRight(dash.district_chart, "Location_District")
      /\ Descending(dash.branch_chart)
      /\ Descending(dash.district_chart)
      /\ dash.top5 = FirstFive(dash.district_chart)
      /\ \A i, j \in 1..Len(dash.district_chart) :
           (dash.district_chart[i].key \in dash.top5 /\ dash.district_chart[j].key \notin dash.top5)
             => dash.district_chart[i].Count >= dash.district_chart[j].Count

\* Six districts with a tie at the fifth place, the sixth before the fifth in
\* key order, and two different counts in the chart.
C9_Witness ==
    /\ Rendered
    /\ Len(dash.district_chart) = 6
    /\ dash.district_chart[5].Count = dash.district_chart[6].Count
    /\ StrLess(dash.district_chart[6].key, dash.district_chart[5].key)
    /\ dash.district_chart[1].Count > dash.district_chart[6].Count
    /\ Cardinality(dash.top5) = TopN

====
